---- MODULE Spec2Model ----
(***************************************************************************)
(* Model of the fs-hash change-detection cache (getCached / updateCache,   *)
(* the bucket store behind them and the fs helpers they call).            *)
(*                                                                         *)
(* Node runs the code on one thread: a handler runs from the completion    *)
(* of one file-system operation up to the point where the next one is      *)
(* issued, so every action below is "one fs operation completes and the    *)
(* promise callbacks that depend on it run".                               *)
(***************************************************************************)
EXTENDS Integers, Sequences, FiniteSets, TLC

(***************************************************************************)
(* Bounds of the model.                                                    *)
(***************************************************************************)
\* calls (getCached, updateCache) started in one behaviour
MaxCalls == 2

\* length of the texts getHash is applied to
MaxLen == 6

(***************************************************************************)
(* Paths.  A path is the sequence of its segments; the leading "/" of an   *)
(* absolute path is left out.                                              *)
(***************************************************************************)
\* rootPath and hashCacheDir are imported from lint-fmt-common
rootPath == <<"root">>
hashCacheDir == <<".fs-hash">>

RECURSIVE CommonPrefixLen(_, _)
CommonPrefixLen(a, b) ==
  IF a = <<>> \/ b = <<>> \/ Head(a) # Head(b) THEN 0
  ELSE 1 + CommonPrefixLen(Tail(a), Tail(b))

\* path.normalize on the segments of an absolute path
RECURSIVE NormalizeAcc(_, _)
NormalizeAcc(done, rest) ==
  IF rest = <<>> THEN done
  ELSE IF Head(rest) = "." THEN NormalizeAcc(done, Tail(rest))
  ELSE IF Head(rest) = ".."
       THEN NormalizeAcc(IF done = <<>> THEN <<>> ELSE SubSeq(done, 1, Len(done) - 1),
                         Tail(rest))
  ELSE NormalizeAcc(Append(done, Head(rest)), Tail(rest))

\* path.join(a, b) of an absolute a
PathJoin(a, b) == NormalizeAcc(<<>>, a \o b)

\* path.relative(from, to) of two absolute paths
PathRelative(from, to) ==
  LET k == CommonPrefixLen(from, to)
  IN  [i \in 1..(Len(from) - k) |-> ".."] \o SubSeq(to, k + 1, Len(to))

\* path.dirname of a relative path
PathDirname(p) == IF Len(p) <= 1 THEN <<".">> ELSE SubSeq(p, 1, Len(p) - 1)

\* getHashPath: the bucket document of the directory filePath lives in
getHashPath(filePath) ==
  LET relative == PathRelative(PathJoin(rootPath, <<"website">>), filePath)
      dir      == PathDirname(relative)
  IN  PathJoin(PathJoin(rootPath, hashCacheDir),
               [dir EXCEPT ![Len(dir)] = @ \o ".json"])

(***************************************************************************)
(* getHash: the 32-bit rolling hash of a text (a sequence of char codes).  *)
(***************************************************************************)
\* A 32-bit word is held as its two 16-bit halves <<high, low>>, so that no
\* intermediate value leaves the range of the checker's integers.
Word(n) == <<(n \div 65536) % 65536, n % 65536>>

\* ToInt32 of ECMAScript: the signed value of a 32-bit word ("| 0")
ToInt32(w) == (IF w[1] >= 32768 THEN w[1] - 65536 ELSE w[1]) * 65536 + w[2]

\* w << 4
ShiftLeft4(w) == <<(w[1] * 16 + ((w[2] * 16) \div 65536)) % 65536, (w[2] * 16) % 65536>>

\* w << 5
ShiftLeft5(w) == <<(w[1] * 32 + ((w[2] * 32) \div 65536)) % 65536, (w[2] * 32) % 65536>>

\* a - b and a + chr, modulo 2^32
WordSub(a, b) == <<(a[1] - b[1] + ((a[2] - b[2]) \div 65536)) % 65536, (a[2] - b[2]) % 65536>>
WordAdd(a, chr) == <<(a[1] + ((a[2] + chr) \div 65536)) % 65536, (a[2] + chr) % 65536>>

\* one round of the loop: hash = ((hash << 5) - hash) + chr; hash |= 0
HashStep(hash, chr) ==
  ToInt32(WordAdd(WordSub(ShiftLeft5(Word(hash)), Word(hash)), chr))

RECURSIVE HashFrom(_, _)
HashFrom(hash, text) ==
  IF text = <<>> THEN hash
  ELSE HashFrom(HashStep(hash, Head(text)), Tail(text))

getHash(text) == IF Len(text) = 0 THEN 0 ELSE HashFrom(0, text)

\* compare dates with 2 minute grace period
gracePeriodMilliseconds == 120000

isNewer(date, comparedToDate) == (date - gracePeriodMilliseconds) > comparedToDate

(***************************************************************************)
(* CacheEntry and CacheFile.  A CacheFile object is the sequence of its    *)
(* own properties in insertion order; an absent property reads undefined.  *)
(***************************************************************************)
CacheEntryOf(dateUpdated, hash) == [dateUpdated |-> dateUpdated, hash |-> hash]

HasKey(cacheFile, key) == \E i \in 1..Len(cacheFile) : cacheFile[i].key = key

\* cacheFile[key], for a key the object has
GetProp(cacheFile, key) ==
  cacheFile[CHOOSE i \in 1..Len(cacheFile) : cacheFile[i].key = key].value

\* cacheFile[key] = value
SetProp(cacheFile, key, value) ==
  IF HasKey(cacheFile, key)
  THEN [i \in 1..Len(cacheFile) |->
          IF cacheFile[i].key = key THEN [key |-> key, value |-> value]
          ELSE cacheFile[i]]
  ELSE Append(cacheFile, [key |-> key, value |-> value])

\* cacheFile[filePath] || {}: <<entry>> of the property, <<>> for the empty
\* object, whose fields are undefined
PropOrEmpty(cacheFile, key) ==
  IF HasKey(cacheFile, key) THEN <<GetProp(cacheFile, key)>> ELSE <<>>

\* a comparer that asks for the same object (a === b): never true of a
\* fresh cacheEntry
fileInfoComparerIdentity(a, b) == FALSE

\* fileInfoComparer(a, b): an undefined field equals no number
fileInfoComparer(a, b) ==
  /\ a # <<>>
  /\ a[1].dateUpdated = b.dateUpdated
  /\ a[1].hash = b.hash

(***************************************************************************)
(* The text of a bucket document.  JSON.stringify writes the members of    *)
(* the object in property order, each as the triple key, dateUpdated,      *)
(* hash; JSON.parse rebuilds the object member by member (a repeated key   *)
(* keeps its first place and takes the last value) and throws on a text    *)
(* that is not JSON.                                                       *)
(***************************************************************************)
JSONstringify(cacheFile) ==
  [wellFormed |-> TRUE,
   members |-> [i \in 1..Len(cacheFile) |->
                  <<cacheFile[i].key, cacheFile[i].value.dateUpdated,
                    cacheFile[i].value.hash>>]]

RECURSIVE ParseMembers(_, _)
ParseMembers(obj, members) ==
  IF members = <<>> THEN obj
  ELSE ParseMembers(SetProp(obj, Head(members)[1],
                            CacheEntryOf(Head(members)[2], Head(members)[3])),
                    Tail(members))

JSONparses(text) == text.wellFormed

JSONparse(text) == ParseMembers(<<>>, text.members)

(***************************************************************************)
(* The world the calls run in.                                             *)
(***************************************************************************)
\* tracked files: two of one directory and one of a sub-directory
FileX == <<"root", "website", "a", "x.ts">>
FileY == <<"root", "website", "a", "y.ts">>
FileZ == <<"root", "website", "a", "b", "z.ts">>
FilePaths == {FileX, FileY, FileZ}

\* contents (char codes): "", "Aa" and "BB"; the last two have one hash
TextEmpty == <<>>
TextAa == <<65, 97>>
TextBB == <<66, 66>>
Texts == {TextEmpty, TextAa, TextBB}

\* timestamps: a base, the base plus the grace period, and one more
TimeBase == 1000
Times == {TimeBase, TimeBase + gracePeriodMilliseconds,
          TimeBase + gracePeriodMilliseconds + 1}

\* every path a call reads a bucket document from
DocPaths == {getHashPath(p) : p \in FilePaths}
            \cup {getHashPath(getHashPath(p)) : p \in FilePaths}

\* the directories above the bucket documents
DirPaths == UNION {{SubSeq(d, 1, n) : n \in 1..(Len(d) - 1)} : d \in DocPaths}

Parent(p) == SubSeq(p, 1, Len(p) - 1)

Calls == {1, 2}

NoText == [wellFormed |-> FALSE, members |-> <<>>]
NoFileInfo == [changed |-> FALSE, fileData |-> <<>>, filePath |-> <<>>, dateUpdated |-> 0]
NoResult == [kind |-> "none", entry |-> CacheEntryOf(0, 0), fileInfo |-> NoFileInfo,
             err |-> "none"]

VARIABLES
  disk,        \* bucket document path -> whether it exists, and its text
  nodes,       \* directory path -> "none", "dir" or "file" (not a directory)
  localCache,  \* the Map localCache: bucket key -> bucket object
  nextId,      \* identity of the next object JSON.parse creates
  calls,       \* the calls in progress, by slot
  started,     \* calls started so far
  last,        \* the call that settled most recently
  hashed,      \* a text and the value getHash returned for it
  chain,       \* an invocation of chainTasks
  copying      \* an invocation of cpGlob

vars == <<disk, nodes, localCache, nextId, calls, started, last, hashed, chain,
          copying>>

\* cpGlob not called.  pc names what the invocation waits for: "glob",
\* "cp" (of the head of toProcess) or "mkdirp".  (copied, tries, made and
\* lastErr record what happened; the code does not read them.)
NoCopy ==
  [state |-> "idle", pc |-> "none", files |-> <<>>, toProcess |-> <<>>,
   noRetry |-> FALSE, value |-> <<>>, reason |-> "none",
   copied |-> <<>>, tries |-> 0, made |-> 0, lastErr |-> "none"]

\* no text hashed yet
NoHash == [text |-> <<>>, hash |-> 0, applied |-> FALSE]

\* chainTasks not called
\* (fulfilled and failure record what the tasks' promises did; the code does
\* not read them)
NoChain ==
  [state |-> "idle", arr |-> <<>>, queue |-> <<>>, invoked |-> <<>>,
   pending |-> FALSE, results |-> <<>>, value |-> <<>>, reason |-> "none",
   fulfilled |-> <<>>, failure |-> "none"]

\* What is remembered of a settled call.
NoSummary ==
  [op |-> "none", filePath |-> <<>>, kind |-> "none", entry |-> CacheEntryOf(0, 0),
   writeState |-> "none"]

Summary(call) ==
  [op |-> call.op, filePath |-> call.filePath, kind |-> call.result.kind,
   entry |-> call.result.entry, writeState |-> call.writeState]

(***************************************************************************)
(* A call.  pc names the file-system operation the call waits for:         *)
(*   "all"          Promise.all([stat(filePath), readFile(filePath)])      *)
(*   "getCacheFile" readFile(hashPath) of getCacheFile                     *)
(*   "exists", "stat", "mkdir"  the task of mkdirp for prefix number index *)
(*   "writeFile"    fs.writeFile of the bucket document                    *)
(*   "settled"      resolved or rejected                                   *)
(* The fields from loads on record what the call did; the code does not    *)
(* read them.                                                              *)
(***************************************************************************)
IdleCall ==
  [op |-> "none", filePath |-> <<>>, pc |-> "idle",
   statState |-> "none", stats |-> 0,
   readState |-> "none", fileData |-> <<>>,
   arg |-> <<>>, target |-> <<>>, cacheEntry |-> CacheEntryOf(0, 0),
   text |-> NoText, index |-> 0, result |-> NoResult,
   loads |-> 0, loadState |-> "none", cacheFile |-> <<>>, held |-> FALSE,
   writes |-> 0, writeState |-> "none", mutated |-> FALSE,
   prior |-> [exists |-> FALSE, text |-> NoText],
   before |-> NoSummary]

Resolved(call, entry, fileInfo) ==
  [call EXCEPT !.pc = "settled",
               !.result = [kind |-> "resolved", entry |-> entry,
                           fileInfo |-> fileInfo, err |-> "none"]]

Rejected(call, err) ==
  [call EXCEPT !.pc = "settled",
               !.result = [kind |-> "rejected", entry |-> CacheEntryOf(0, 0),
                           fileInfo |-> NoFileInfo, err |-> err]]

(***************************************************************************)
(* The promise callbacks of hash-cache: what runs, without suspending,     *)
(* once getCacheFile has resolved with cacheFile.  Each yields the call    *)
(* and the overlay as the callback leaves them.                            *)
(***************************************************************************)
\* getCacheEntry's callback: cacheFile[filePath] || {dateUpdated: 0, hash: 0}
EntryOrZero(cacheFile, filePath) ==
  IF HasKey(cacheFile, filePath) THEN GetProp(cacheFile, filePath)
  ELSE CacheEntryOf(0, 0)

\* the verdict of getCached
Changed(hash, dateUpdated, cacheEntry) ==
  hash # cacheEntry.hash \/ isNewer(dateUpdated, cacheEntry.dateUpdated)

\* what getCached hands to getCacheEntry
CacheEntryArg(filePath) == getHashPath(filePath)

\* getCached's callback on the entry getCacheEntry resolved with
GetCachedThen(call, cacheFile) ==
  LET cacheEntry  == EntryOrZero(cacheFile, call.arg)
      hash        == getHash(call.fileData)
      dateUpdated == call.stats
      changed     == Changed(hash, dateUpdated, cacheEntry)
  IN  Resolved([call EXCEPT !.cacheEntry = cacheEntry], cacheEntry,
               [changed |-> changed, fileData |-> call.fileData,
                filePath |-> call.filePath, dateUpdated |-> dateUpdated])

\* a direct getCacheEntry(filePath): resolves with the entry
GetCacheEntryThen(call, cacheFile) ==
  LET cacheEntry == EntryOrZero(cacheFile, call.arg)
  IN  Resolved([call EXCEPT !.cacheEntry = cacheEntry], cacheEntry, NoFileInfo)

\* an assignment under the bucket's key instead of the file's
AssignedUnderHashPath(cacheFile, filePath, cacheEntry) ==
  SetProp(cacheFile, getHashPath(filePath), cacheEntry)

\* an assignment in a new object that has no other entry
AssignedAlone(cacheFile, filePath, cacheEntry) == SetProp(<<>>, filePath, cacheEntry)

\* cacheFile[filePath] = cacheEntry
Assigned(cacheFile, filePath, cacheEntry) == SetProp(cacheFile, filePath, cacheEntry)

\* a setCacheEntry that assigns in a copy of the object, not in the object
SetCacheEntryThenCopy(call, cache, cacheFile, held) ==
  IF fileInfoComparer(PropOrEmpty(cacheFile, call.filePath), call.cacheEntry)
  THEN [call  |-> Resolved(call, call.cacheEntry, NoFileInfo),
        cache |-> cache]
  ELSE [call  |-> [call EXCEPT !.mutated = TRUE,
                               !.target = getHashPath(call.filePath),
                               !.text = JSONstringify(
                                          SetProp(cacheFile, call.filePath,
                                                  call.cacheEntry)),
                               !.prior = disk[getHashPath(call.filePath)],
                               !.index = 1,
                               !.pc = "exists"],
        cache |-> cache]

\* setCacheEntry's callback: skip an equal entry, else assign it in the
\* object getCacheFile gave (the overlay's own object when held), stringify
\* the object and start writeFilep, whose mkdirp issues exists(prefix 1)
SetCacheEntryThen(call, cache, cacheFile, held) ==
  IF fileInfoComparer(PropOrEmpty(cacheFile, call.filePath), call.cacheEntry)
  THEN [call  |-> Resolved(call, call.cacheEntry, NoFileInfo),
        cache |-> cache]
  ELSE LET assigned == Assigned(cacheFile, call.filePath, call.cacheEntry)
           hashPath == getHashPath(call.filePath)
           bucket   == getHashPath(call.arg)
       IN  [call  |-> [call EXCEPT !.mutated = TRUE,
                                   !.target = hashPath,
                                   !.text = JSONstringify(assigned),
                                   !.prior = disk[hashPath],
                                   !.index = 1,
                                   !.pc = "exists"],
            cache |-> IF held
                      THEN [cache EXCEPT ![bucket].cacheFile = assigned]
                      ELSE cache]

\* a getCacheEntry that stores the zero entry it falls back to
ThenStoring(call, cache, cacheFile, held) ==
  LET call1  == [call EXCEPT !.cacheFile = cacheFile, !.held = held]
      stored == IF HasKey(cacheFile, call.arg) THEN cacheFile
                ELSE SetProp(cacheFile, call.arg, CacheEntryOf(0, 0))
      cache1 == IF held
                THEN [cache EXCEPT ![getHashPath(call.arg)].cacheFile = stored]
                ELSE cache
  IN  IF call.op = "updateCache" THEN SetCacheEntryThen(call1, cache, cacheFile, held)
      ELSE IF call.op = "getCached"
      THEN [call |-> GetCachedThen(call1, cacheFile), cache |-> cache1]
      ELSE [call |-> GetCacheEntryThen(call1, cacheFile), cache |-> cache1]

\* the callback chained on getCacheFile, by the function that called it
Then(call, cache, cacheFile, held) ==
  LET call1 == [call EXCEPT !.cacheFile = cacheFile, !.held = held]
  IN  IF call.op = "updateCache" THEN SetCacheEntryThen(call1, cache, cacheFile, held)
      ELSE IF call.op = "getCached"
      THEN [call |-> GetCachedThen(call1, cacheFile), cache |-> cache]
      ELSE [call |-> GetCacheEntryThen(call1, cacheFile), cache |-> cache]

\* getCacheFile(arg): the overlay's object when it has one, else readFile
GetCacheFile(call, cache) ==
  LET hashPath == getHashPath(call.arg)
  IN  IF cache[hashPath].has
      THEN Then([call EXCEPT !.loadState = "hit"], cache,
                cache[hashPath].cacheFile, TRUE)
      ELSE [call  |-> [call EXCEPT !.pc = "getCacheFile", !.target = hashPath,
                                   !.loads = @ + 1],
            cache |-> cache]

\* the callback of Promise.all: getCached asks for the entry, updateCache
\* builds cacheEntry (setCacheEntry) and asks for the bucket
AllThen(call, cache) ==
  IF call.op = "getCached"
  THEN GetCacheFile([call EXCEPT !.arg = CacheEntryArg(call.filePath)], cache)
  ELSE GetCacheFile([call EXCEPT !.arg = call.filePath,
                                 !.cacheEntry = CacheEntryOf(call.stats,
                                                             getHash(call.fileData))],
                    cache)

(***************************************************************************)
(* Initial states: no call yet, an empty overlay, and a cache directory in *)
(* one of the states a run can find it in.  The tracked files belong to    *)
(* the environment, which may change them at any time: a stat or a read of *)
(* a tracked file observes any change time of Times, any content of Texts. *)
(***************************************************************************)
CacheRoot == PathJoin(rootPath, hashCacheDir)
DirA == Append(CacheRoot, "a")
EntryBase == CacheEntryOf(TimeBase, getHash(TextAa))
MissingDoc == [exists |-> FALSE, text |-> NoText]
GarbageDoc == [exists |-> TRUE, text |-> NoText]
DocOf(cacheFile) == [exists |-> TRUE, text |-> JSONstringify(cacheFile)]

\* The cache directory as a run can find it: <<state of CacheRoot, state of
\* DirA, document of FileX's bucket, document of FileZ's bucket>>.  Nothing
\* yet; a file in the place of the cache directory; one document; a damaged
\* document; documents at both levels.
InitWorlds ==
  { <<"none", "none", MissingDoc, MissingDoc>>,
    <<"file", "none", MissingDoc, MissingDoc>>,
    <<"dir", "none", DocOf(<<[key |-> FileX, value |-> EntryBase]>>), MissingDoc>>,
    <<"dir", "none", GarbageDoc, MissingDoc>>,
    <<"dir", "dir", DocOf(<<[key |-> FileX, value |-> EntryBase]>>),
      DocOf(<<[key |-> FileZ, value |-> EntryBase]>>)>> }

Init ==
  /\ \E w \in InitWorlds :
       /\ nodes = [d \in DirPaths |->
                    IF d = CacheRoot THEN w[1] ELSE IF d = DirA THEN w[2] ELSE "dir"]
       /\ disk = [h \in DocPaths |->
                   IF h = getHashPath(FileX) THEN w[3]
                   ELSE IF h = getHashPath(FileZ) THEN w[4] ELSE MissingDoc]
  /\ localCache = [h \in DocPaths |-> [has |-> FALSE, id |-> 0, cacheFile |-> <<>>]]
  /\ nextId = 1
  /\ calls = [c \in Calls |-> IdleCall]
  /\ started = 0
  /\ last = NoSummary
  /\ hashed = NoHash
  /\ chain = NoChain
  /\ copying = NoCopy

(***************************************************************************)
(* Actions.                                                                *)
(***************************************************************************)
\* what every step of call c does to the call table and the overlay
Step(c, call, cache, id) ==
  /\ calls' = [calls EXCEPT ![c] = call]
  /\ localCache' = cache
  /\ nextId' = id
  /\ last' = IF call.pc = "settled" /\ calls[c].pc # "settled"
             THEN Summary(call) ELSE last
  /\ UNCHANGED <<hashed, chain, copying>>

Free(c) ==
  /\ calls[c].pc \in {"idle", "settled"}
  /\ calls[c].statState # "pending"
  /\ calls[c].readState # "pending"

\* no call is in progress
Quiet == \A c \in Calls : Free(c)

\* a new call takes the first free slot
FirstFree(c) == Free(c) /\ \A d \in Calls : d < c => ~Free(d)

\* getCached(filePath) / updateCache(filePath) up to Promise.all: stat and
\* readFile of the tracked file are both issued
Begin(c, op, filePath) ==
  /\ started < MaxCalls
  /\ FirstFree(c)
  /\ started' = started + 1
  /\ Step(c, [IdleCall EXCEPT !.op = op, !.filePath = filePath, !.pc = "all",
                              !.statState = "pending", !.readState = "pending",
                              !.before = last],
          localCache, nextId)
  /\ UNCHANGED <<disk, nodes>>

getCached(c, filePath) == Begin(c, "getCached", filePath)

updateCache(c, filePath) == Begin(c, "updateCache", filePath)

\* a Promise.all that waits for both and goes on whatever they answered
AllSettleLenient(c, call, ok) ==
  IF calls[c].pc = "all" /\ call.statState # "pending" /\ call.readState # "pending"
  THEN LET r == AllThen(call, localCache)
       IN  Step(c, r.call, r.cache, nextId)
  ELSE Step(c, call, localCache, nextId)

\* a Promise.all that never settles once one of the two has failed
AllSettleSwallowing(c, call, ok) ==
  IF calls[c].pc = "all" /\ call.statState = "ok" /\ call.readState = "ok"
  THEN LET r == AllThen(call, localCache)
       IN  Step(c, r.call, r.cache, nextId)
  ELSE Step(c, call, localCache, nextId)

\* a settle of one of the two operations of Promise.all
AllSettle(c, call, ok) ==
  IF calls[c].pc # "all"
  THEN \* Promise.all has rejected already: the outcome is dropped
       Step(c, call, localCache, nextId)
  ELSE IF ~ok
  THEN Step(c, Rejected(call, "ENOENT"), localCache, nextId)
  ELSE IF call.statState = "ok" /\ call.readState = "ok"
  THEN LET r == AllThen(call, localCache)
       IN  Step(c, r.call, r.cache, nextId)
  ELSE Step(c, call, localCache, nextId)

\* stat(filePath) settles: with change time ctime, or with a failure
StatDone(c, ok, ctime) ==
  /\ calls[c].statState = "pending"
  /\ AllSettle(c, [calls[c] EXCEPT !.statState = IF ok THEN "ok" ELSE "err",
                                   !.stats = IF ok THEN ctime ELSE 0],
               ok)
  /\ UNCHANGED <<disk, nodes, started>>

\* readFile(filePath) settles: with content fileData, or with a failure
ReadDone(c, ok, fileData) ==
  /\ calls[c].readState = "pending"
  /\ AllSettle(c, [calls[c] EXCEPT !.readState = IF ok THEN "ok" ELSE "err",
                                   !.fileData = IF ok THEN fileData ELSE <<>>],
               ok)
  /\ UNCHANGED <<disk, nodes, started>>

\* the code a failed readFile(hashPath) carries, or "SyntaxError" of
\* JSON.parse, or "none"
ReadOutcomes(hashPath) ==
  {"EACCES"} \cup (IF ~disk[hashPath].exists THEN {"ENOENT"}
                   ELSE IF JSONparses(disk[hashPath].text) THEN {"none"}
                   ELSE {"SyntaxError"})

\* a catch that rethrows everything, and one that swallows everything
RecoverableNever(code) == FALSE
RecoverableAlways(code) == TRUE

\* the catch of getCacheFile lets one code pass
Recoverable(code) == code = "ENOENT"

\* readFile(hashPath) of getCacheFile settles: parse and keep in the
\* overlay, or {} for a missing document, or reject
GetCacheFileDone(c, code) ==
  /\ calls[c].pc = "getCacheFile"
  /\ code \in ReadOutcomes(calls[c].target)
  /\   LET call == calls[c]
           hashPath == call.target
       IN  IF code = "none"
           THEN LET cacheFile == JSONparse(disk[hashPath].text)
                    cache == [localCache EXCEPT
                                ![hashPath] = [has |-> TRUE, id |-> nextId,
                                               cacheFile |-> cacheFile]]
                    r == Then([call EXCEPT !.loadState = "parsed"], cache,
                              cacheFile, TRUE)
                IN  Step(c, r.call, r.cache, nextId + 1)
           ELSE IF Recoverable(code)
           THEN LET r == Then([call EXCEPT !.loadState = code], localCache,
                              <<>>, FALSE)
                IN  Step(c, r.call, r.cache, nextId)
           ELSE Step(c, Rejected([call EXCEPT !.loadState = code], "Error"),
                     localCache, nextId)
  /\ UNCHANGED <<disk, nodes, started>>

\* mkdirp(path.dirname(target)): the directory, and the prefix a task tests
MkdirpTarget(call) == Parent(call.target)
PartialPath(call) == SubSeq(MkdirpTarget(call), 1, call.index)

\* a mkdirp that stops after its first prefix
TaskResolvedLast(call) == [call EXCEPT !.pc = "writeFile", !.writes = @ + 1]

\* a task of mkdirp resolved: chainTasks invokes the next one, and after the
\* last one writeFilep issues writeFile(target, text)
TaskResolved(call) ==
  IF call.index < Len(MkdirpTarget(call))
  THEN [call EXCEPT !.index = @ + 1, !.pc = "exists"]
  ELSE [call EXCEPT !.pc = "writeFile", !.writes = @ + 1]

\* fs.access(partialPath) settles: stat follows, or the catch makes the
\* missing prefix, or rethrows
ExistsDone(c) ==
  /\ calls[c].pc = "exists"
  /\ \E code \in {"EACCES"} \cup (IF nodes[PartialPath(calls[c])] = "none"
                                  THEN {"ENOENT"} ELSE {"none"}) :
       Step(c, IF code = "none" THEN [calls[c] EXCEPT !.pc = "stat"]
               ELSE IF code = "ENOENT" THEN [calls[c] EXCEPT !.pc = "mkdir"]
               ELSE Rejected(calls[c], code),
            localCache, nextId)
  /\ UNCHANGED <<disk, nodes, started>>

\* fs.stat(partialPath) settles: a directory passes, anything else throws
\* EISDIR, which the catch rethrows; ENOENT makes the prefix
DirStatDone(c) ==
  /\ calls[c].pc = "stat"
  /\ \E code \in {"EACCES"} \cup (IF nodes[PartialPath(calls[c])] = "none"
                                  THEN {"ENOENT"}
                                  ELSE IF nodes[PartialPath(calls[c])] = "dir"
                                  THEN {"none"} ELSE {"EISDIR"}) :
       Step(c, IF code = "none" THEN TaskResolved(calls[c])
               ELSE IF code = "ENOENT" THEN [calls[c] EXCEPT !.pc = "mkdir"]
               ELSE Rejected(calls[c], code),
            localCache, nextId)
  /\ UNCHANGED <<disk, nodes, started>>

\* what fs.mkdir(path) answers in the present tree
MkdirCode(path) ==
  IF nodes[path] # "none" THEN "EEXIST"
  ELSE IF Len(path) > 1 /\ nodes[Parent(path)] # "dir" THEN "ENOENT"
  ELSE "none"

\* fs.mkdir(partialPath) settles
MkdirDone(c) ==
  /\ calls[c].pc = "mkdir"
  /\ \E code \in {"EACCES", MkdirCode(PartialPath(calls[c]))} :
       /\ Step(c, IF code = "none" THEN TaskResolved(calls[c])
                  ELSE Rejected(calls[c], code),
               localCache, nextId)
       /\ nodes' = IF code = "none"
                   THEN [nodes EXCEPT ![PartialPath(calls[c])] = "dir"]
                   ELSE nodes
  /\ UNCHANGED <<disk, started>>

\* what fs.writeFile(target, ...) answers in the present tree
WriteCode(target) == IF nodes[Parent(target)] # "dir" THEN "ENOENT" ELSE "none"

\* a write that merges the entry into the document as it is on disk
WrittenMerging(call) ==
  [exists |-> TRUE,
   text |-> IF disk[call.target].exists /\ JSONparses(disk[call.target].text)
            THEN JSONstringify(SetProp(JSONparse(disk[call.target].text),
                                       call.filePath, call.cacheEntry))
            ELSE call.text]

\* the text fs.writeFile leaves in the document
Written(call) == [exists |-> TRUE, text |-> call.text]

\* fs.writeFile(hashPath, JSON.stringify(cacheFile)) settles: setCacheEntry
\* resolves with cacheEntry, or the failure passes up
WriteDone(c) ==
  /\ calls[c].pc = "writeFile"
  /\ \E code \in {"EACCES", WriteCode(calls[c].target)} :
       /\ Step(c, IF code = "none"
                  THEN Resolved([calls[c] EXCEPT !.writeState = "ok"],
                                calls[c].cacheEntry, NoFileInfo)
                  ELSE Rejected([calls[c] EXCEPT !.writeState = "failed"], code),
               localCache, nextId)
       /\ disk' = IF code = "none"
                  THEN [disk EXCEPT ![calls[c].target] = Written(calls[c])]
                  ELSE disk
  /\ UNCHANGED <<nodes, started>>

\* a direct call of the store's getCacheEntry(filePath)
getCacheEntry(c, filePath) ==
  /\ started < MaxCalls
  /\ FirstFree(c)
  /\ started' = started + 1
  /\ LET r == GetCacheFile([IdleCall EXCEPT !.op = "getCacheEntry",
                                            !.filePath = filePath,
                                            !.arg = filePath, !.before = last],
                           localCache)
     IN  Step(c, r.call, r.cache, nextId)
  /\ UNCHANGED <<disk, nodes>>

\* a step of a call in progress
Progress(c) ==
  \/ \E ctime \in Times : StatDone(c, TRUE, ctime)
  \/ StatDone(c, FALSE, 0)
  \/ \E fileData \in Texts : ReadDone(c, TRUE, fileData)
  \/ ReadDone(c, FALSE, <<>>)
  \/ \E code \in {"none", "ENOENT", "EACCES", "SyntaxError"} : GetCacheFileDone(c, code)
  \/ ExistsDone(c)
  \/ DirStatDone(c)
  \/ MkdirDone(c)
  \/ WriteDone(c)

(***************************************************************************)
(* Specifications.  Spec: calls may overlap.  SeqSpec: the caller awaits   *)
(* each call before the next.  StoreSpec: SeqSpec with direct calls of     *)
(* getCacheEntry.  CalmSpec: Spec where no call is rejected.               *)
(***************************************************************************)
Next ==
  \/ \E c \in Calls, p \in FilePaths : getCached(c, p)
  \/ \E c \in Calls, p \in FilePaths : updateCache(c, p)
  \/ \E c \in Calls : Progress(c)

Spec == Init /\ [][Next]_vars

SeqNext ==
  \/ \E c \in Calls, p \in FilePaths : Quiet /\ getCached(c, p)
  \/ \E c \in Calls, p \in FilePaths : Quiet /\ updateCache(c, p)
  \/ \E c \in Calls : Progress(c)

SeqSpec == Init /\ [][SeqNext]_vars

StoreNext ==
  \/ SeqNext
  \/ \E c \in Calls, p \in FilePaths : Quiet /\ getCacheEntry(c, p)

StoreSpec == Init /\ [][StoreNext]_vars

\* overlapping calls in an environment where no operation fails
CalmNext ==
  /\ Next
  /\ \A c \in Calls : calls'[c].result.kind # "rejected"

CalmSpec == Init /\ [][CalmNext]_vars

\* awaited calls in an environment where no operation fails
CalmSeqNext ==
  /\ SeqNext
  /\ \A c \in Calls : calls'[c].result.kind # "rejected"

CalmSeqSpec == Init /\ [][CalmSeqNext]_vars

\* the failures that come from outside the program: no permission, a
\* document that cannot be read or parsed, a tracked file or a parent
\* directory that is missing, a file in the place of a directory
EnvironmentFailures == {"EACCES", "Error", "ENOENT", "EISDIR"}

\* overlapping updateCache calls in an environment that causes no failure
PairNext ==
  /\ \/ \E c \in Calls, p \in FilePaths : updateCache(c, p)
     \/ \E c \in Calls : Progress(c)
  /\ \A c \in Calls : calls'[c].result.err \notin EnvironmentFailures

PairSpec == Init /\ [][PairNext]_vars

\* the calls are for the two tracked files of one directory, whose content
\* may differ from call to call and whose change time does not
SteadyFiles ==
  \A c \in Calls :
    /\ calls[c].filePath \in {<<>>, FileX, FileY}
    /\ calls[c].stats \in {0, TimeBase}
    /\ calls[c].fileData \in {TextEmpty, TextAa}

\* overlapping calls on those files
FairNext == Next /\ SteadyFiles'

\* Every file-system operation a call has issued completes in the end, with
\* success or with failure: no operation stays pending for ever.  A pending
\* stat or read (of a tracked file or of a document) can fail at any moment,
\* so for these the condition is weak fairness of the failure, which a
\* success disables.
Fairness ==
  \A c \in Calls :
    /\ WF_vars(StatDone(c, FALSE, 0))
    /\ WF_vars(ReadDone(c, FALSE, <<>>))
    /\ WF_vars(GetCacheFileDone(c, "EACCES"))
    /\ WF_vars(ExistsDone(c))
    /\ WF_vars(DirStatDone(c))
    /\ WF_vars(MkdirDone(c))
    /\ WF_vars(WriteDone(c))

FairSpec == Init /\ [][FairNext]_vars /\ Fairness

(***************************************************************************)
(* chainTasks.  An element of the array is a task or an array; a task,     *)
(* when invoked, returns a promise that resolves with data or rejects.     *)
(***************************************************************************)
Tasks == {"t1", "t2", "t3"}
TaskItem(task) == [isArray |-> FALSE, task |-> task, items |-> <<>>]
ArrayItem(items) == [isArray |-> TRUE, task |-> "none", items |-> items]

\* arr.reduce((out, item) => out.concat(isArray(item) ? flatten(item) : item), [])
RECURSIVE flatten(_)
flatten(arr) ==
  IF arr = <<>> THEN <<>>
  ELSE LET item == arr[Len(arr)]
           out  == flatten(SubSeq(arr, 1, Len(arr) - 1))
       IN  out \o (IF item.isArray THEN flatten(item.items) ELSE <<item.task>>)

\* results.unshift(data)
Unshifted(results, data) == <<data>> \o results

\* results.push(data)
Pushed(results, data) == Append(results, data)

\* next(): the task at the head of the queue is invoked
Invoked(ch) ==
  [ch EXCEPT !.invoked = Append(@, Head(ch.queue)), !.queue = Tail(@),
             !.pending = TRUE]

\* the callback chained on a task's promise: keep its data, invoke the next
\* task, or, after the last one, resolve with results
ThenNext(ch, data) ==
  LET kept == [ch EXCEPT !.results = Pushed(@, data)]
  IN  IF ch.queue # <<>> THEN Invoked(kept)
      ELSE [kept EXCEPT !.state = "resolved", !.value = kept.results,
                        !.pending = FALSE]

\* a chain that goes on with the next task after a rejection
ThrownOnward(ch, reason) == ThenNext(ch, <<"none", reason>>)

\* a rejection passes every later callback and rejects the returned promise
Thrown(ch, reason) ==
  [ch EXCEPT !.state = "rejected", !.reason = reason, !.pending = FALSE]

ArrayInputs ==
  { <<>>,
    <<TaskItem("t1")>>,
    <<TaskItem("t2"), TaskItem("t2")>>,
    <<TaskItem("t1"), TaskItem("t2"), TaskItem("t3")>>,
    <<TaskItem("t1"), ArrayItem(<<TaskItem("t2"), TaskItem("t3")>>)>>,
    <<ArrayItem(<<TaskItem("t1"), ArrayItem(<<TaskItem("t2")>>)>>), TaskItem("t3")>>,
    <<ArrayItem(<<>>), TaskItem("t3"), ArrayItem(<<TaskItem("t1")>>)>> }

DataValues == {"a", "b"}
Reasons == {"e1", "e2"}

\* an element that is not a function, and what chainTasks rejects with
\* when it meets one
NonFunction == "nf"
NonFunctionReason == "A non-function was passed to chainTasks"

\* typeof next === 'function'
IsFunction(next) == next \in Tasks

\* the place of the first element of queue that is not a function, or 0
FirstNonFunction(queue) ==
  IF \A i \in 1..Len(queue) : IsFunction(queue[i]) THEN 0
  ELSE CHOOSE i \in 1..Len(queue) :
         ~IsFunction(queue[i]) /\ \A j \in 1..(i - 1) : IsFunction(queue[j])

\* a promise that has resolved or rejected stays as it is
Returned(ch, next) ==
  IF ch.state \in {"resolved", "rejected"}
  THEN [next EXCEPT !.state = ch.state, !.value = ch.value, !.reason = ch.reason]
  ELSE next

\* chainTasks(arr): the loop shifts the elements one by one; it invokes the
\* first task and chains one callback per later task, and at an element
\* that is not a function it returns Promise.reject(...), leaving the chain
\* built so far (of which queue keeps the tasks not yet invoked)
chainTasks(arr) ==
  /\ chain.state = "idle"
  /\ chain' = LET queue == flatten(arr)
                  k  == FirstNonFunction(queue)
                  ch == IF k = 0
                        THEN [chain EXCEPT !.arr = arr, !.queue = queue,
                                           !.state = "running"]
                        ELSE [chain EXCEPT !.arr = arr,
                                           !.queue = SubSeq(queue, 1, k - 1),
                                           !.state = "rejected",
                                           !.reason = NonFunctionReason]
              IN  IF ch.queue # <<>> THEN Invoked(ch)
                  ELSE IF k = 0
                  THEN [ch EXCEPT !.state = "resolved", !.value = <<>>]
                  ELSE ch
  /\ UNCHANGED <<disk, nodes, localCache, nextId, calls, started, last, hashed, copying>>

\* the promise of the task invoked last resolves with <<task, data>>
TaskFulfilled(data) ==
  /\ chain.pending
  /\ LET outcome == <<chain.invoked[Len(chain.invoked)], data>>
     IN  chain' = Returned(chain,
                           ThenNext([chain EXCEPT !.fulfilled = Append(@, outcome)],
                                    outcome))
  /\ UNCHANGED <<disk, nodes, localCache, nextId, calls, started, last, hashed, copying>>

\* the promise of the task invoked last rejects with reason
TaskFailed(reason) ==
  /\ chain.pending
  /\ chain' = Returned(chain, Thrown([chain EXCEPT !.failure = reason], reason))
  /\ UNCHANGED <<disk, nodes, localCache, nextId, calls, started, last, hashed, copying>>

ChainNext ==
  \/ \E arr \in ArrayInputs : chainTasks(arr)
  \/ \E data \in DataValues : TaskFulfilled(data)
  \/ \E reason \in Reasons : TaskFailed(reason)

ChainSpec == Init /\ [][ChainNext]_vars

\* arrays with an element that is not a function: first, last, between
\* tasks, alone, and inside a nested array
MixedInputs ==
  { <<TaskItem(NonFunction)>>,
    <<TaskItem(NonFunction), TaskItem("t1")>>,
    <<TaskItem("t1"), TaskItem(NonFunction)>>,
    <<TaskItem("t1"), TaskItem("t2"), TaskItem(NonFunction), TaskItem("t3")>>,
    <<TaskItem("t1"), ArrayItem(<<TaskItem("t2"), TaskItem(NonFunction)>>)>> }

\* chainTasks on any array, of tasks only or not
ChainAnyNext ==
  \/ \E arr \in ArrayInputs \cup MixedInputs : chainTasks(arr)
  \/ \E data \in DataValues : TaskFulfilled(data)
  \/ \E reason \in Reasons : TaskFailed(reason)

ChainAnySpec == Init /\ [][ChainAnyNext]_vars

(***************************************************************************)
(* cpGlob.  cp(srcFile, destFile) settles with "ok", or rejects with the   *)
(* error of fs.copyFile: "dest" and "source" are the two ENOENT errors cp  *)
(* tells apart by exists(dirname(dest)), "EACCES" is any other error.      *)
(***************************************************************************)
FileLists == {<<>>, <<"f1">>, <<"f1", "f2">>, <<"f2", "f1", "f3">>}
CpOutcomes == {"ok", "dest", "source", "EACCES"}

\* reject(err) of cpGlob's promise
CopyRejected(cp, err) ==
  [cp EXCEPT !.state = "rejected", !.pc = "none", !.reason = err]

\* copyNextFile(): resolve(files) when nothing is left, else cp of the head
CopyNextFile(cp) ==
  IF cp.toProcess = <<>>
  THEN [cp EXCEPT !.state = "resolved", !.pc = "none", !.value = cp.files]
  ELSE [cp EXCEPT !.pc = "cp", !.tries = @ + 1]

\* a catch that always makes the folder and tries again
CaughtRetrying(cp, err) == [cp EXCEPT !.noRetry = TRUE, !.pc = "mkdirp"]

\* the catch after cp: rethrow (to reject) unless this is the first
\* missing-folder failure of the file, else make the folder
Caught(cp, err) ==
  IF cp.noRetry \/ err # "dest"
  THEN CopyRejected(cp, err)
  ELSE [cp EXCEPT !.noRetry = TRUE, !.pc = "mkdirp"]

\* cpGlob(src, dest): dest must name a directory; then glob(src) is issued
cpGlob(destIsDir) ==
  /\ copying.state = "idle"
  /\ copying' = IF destIsDir THEN [copying EXCEPT !.state = "running", !.pc = "glob"]
                ELSE CopyRejected(copying, "Error")
  /\ UNCHANGED <<disk, nodes, localCache, nextId, calls, started, last, hashed, chain>>

\* glob calls back with the matched files
GlobDone(files) ==
  /\ copying.pc = "glob"
  /\ copying' = CopyNextFile([copying EXCEPT !.files = files, !.toProcess = files])
  /\ UNCHANGED <<disk, nodes, localCache, nextId, calls, started, last, hashed, chain>>

\* glob calls back with an error
GlobFailed ==
  /\ copying.pc = "glob"
  /\ copying' = CopyRejected(copying, "globErr")
  /\ UNCHANGED <<disk, nodes, localCache, nextId, calls, started, last, hashed, chain>>

\* cp of the head of toProcess settles
CpDone(outcome) ==
  /\ copying.pc = "cp"
  /\ copying' =
       IF outcome = "ok"
       THEN CopyNextFile([copying EXCEPT !.noRetry = FALSE,
                                         !.toProcess = Tail(@),
                                         !.copied = Append(@, Head(copying.toProcess)),
                                         !.tries = 0,
                                         !.lastErr = "none"])
       ELSE Caught([copying EXCEPT !.lastErr = outcome], outcome)
  /\ UNCHANGED <<disk, nodes, localCache, nextId, calls, started, last, hashed, chain>>

\* mkdirp(dirname(destFile)) settles
CopyMkdirpDone(ok) ==
  /\ copying.pc = "mkdirp"
  /\ copying' = IF ok THEN CopyNextFile([copying EXCEPT !.made = @ + 1])
                ELSE CopyRejected([copying EXCEPT !.lastErr = "mkdirp"], "EACCES")
  /\ UNCHANGED <<disk, nodes, localCache, nextId, calls, started, last, hashed, chain>>

CopyNext ==
  \/ \E destIsDir \in BOOLEAN : cpGlob(destIsDir)
  \/ \E files \in FileLists : GlobDone(files)
  \/ GlobFailed
  \/ \E outcome \in CpOutcomes : CpDone(outcome)
  \/ \E ok \in BOOLEAN : CopyMkdirpDone(ok)

CopySpec == Init /\ [][CopyNext]_vars

(***************************************************************************)
(* getHash applied to texts that grow by one character at a time.          *)
(***************************************************************************)
\* char codes: NUL, "A", "a" and the largest code unit
Chars == {0, 65, 97, 65535}

\* getHash(text) is called for the text with one more character
Hash(chr) ==
  /\ Len(hashed.text) < MaxLen
  /\ hashed' = [text |-> Append(hashed.text, chr),
                hash |-> getHash(Append(hashed.text, chr)),
                applied |-> TRUE]
  /\ UNCHANGED <<disk, nodes, localCache, nextId, calls, started, last, chain, copying>>

\* getHash("") is called
HashEmpty ==
  /\ ~hashed.applied
  /\ hashed' = [text |-> <<>>, hash |-> getHash(<<>>), applied |-> TRUE]
  /\ UNCHANGED <<disk, nodes, localCache, nextId, calls, started, last, chain, copying>>

HashNext ==
  \/ \E chr \in Chars : Hash(chr)
  \/ HashEmpty

HashSpec == Init /\ [][HashNext]_vars

(***************************************************************************)
(* Properties.                                                             *)
(***************************************************************************)
Settled(c) == calls[c].pc = "settled"
ResolvedCall(c) == Settled(c) /\ calls[c].result.kind = "resolved"
RejectedCall(c) == Settled(c) /\ calls[c].result.kind = "rejected"

\* the call before call c was a successful updateCache of the same path
AfterCommitOfSamePath(c) ==
  /\ calls[c].before.op = "updateCache"
  /\ calls[c].before.kind = "resolved"
  /\ calls[c].before.filePath = calls[c].filePath

\* the entry the store holds for filePath: in the overlay's bucket when the
\* overlay has it, else in the persisted document
StoredEntry(filePath) ==
  LET hashPath == getHashPath(filePath)
  IN  IF localCache[hashPath].has
      THEN EntryOrZero(localCache[hashPath].cacheFile, filePath)
      ELSE IF disk[hashPath].exists /\ JSONparses(disk[hashPath].text)
      THEN EntryOrZero(JSONparse(disk[hashPath].text), filePath)
      ELSE CacheEntryOf(0, 0)

\* the bucket of filePath can be read
Readable(filePath) ==
  \/ localCache[getHashPath(filePath)].has
  \/ ~disk[getHashPath(filePath)].exists
  \/ JSONparses(disk[getHashPath(filePath)].text)

\* C1: a getCached(p) right after a successful updateCache(p), reading
\* content with the committed fingerprint at a time at most the grace period
\* after the committed dateUpdated, reports changed = false.
C1_UnchangedAfterCommit ==
  \A c \in Calls :
    ( /\ ResolvedCall(c)
      /\ calls[c].op = "getCached"
      /\ AfterCommitOfSamePath(c)
      /\ getHash(calls[c].fileData) = calls[c].before.entry.hash
      /\ calls[c].stats - calls[c].before.entry.dateUpdated <= gracePeriodMilliseconds )
    => calls[c].result.fileInfo.changed = FALSE

\* C2: getCached(p) reports changed = true whenever the fingerprint it
\* computed differs from the hash stored for p or the time it observed is
\* more than the grace period after the stored dateUpdated.
C2_ChangedAgainstStoredEntry ==
  \A c \in Calls :
    ( /\ ResolvedCall(c)
      /\ calls[c].op = "getCached"
      /\ Readable(calls[c].filePath)
      /\ \/ getHash(calls[c].fileData) # StoredEntry(calls[c].filePath).hash
         \/ calls[c].stats - StoredEntry(calls[c].filePath).dateUpdated
              > gracePeriodMilliseconds )
    => calls[c].result.fileInfo.changed = TRUE

\* a step of call c, its start included
StepOf(c) == calls'[c] # calls[c]

\* the step leaves the documents, the directories and the overlay alone
StoreUnchanged == disk' = disk /\ nodes' = nodes /\ localCache' = localCache

\* C3: getCached never mutates the cache: no step of a getCached call, on
\* any outcome, changes a document or a bucket object the overlay holds; a
\* bucket it loads enters the overlay as the document has it; it issues no
\* write.
C3_Frame ==
  \A c \in Calls :
    (StepOf(c) /\ calls'[c].op = "getCached") =>
      /\ disk' = disk
      /\ nodes' = nodes
      /\ \A h \in DocPaths :
           IF localCache[h].has THEN localCache'[h] = localCache[h]
           ELSE localCache'[h].has =>
                  localCache'[h].cacheFile = JSONparse(disk[h].text)
      /\ calls'[c].writes = 0
      /\ ~calls'[c].mutated

C4_SecondCommitIsNoOp ==
  \A c \in Calls :
    ( /\ calls[c].op = "updateCache"
      /\ AfterCommitOfSamePath(c)
      /\ calls[c].statState = "ok"
      /\ calls[c].readState = "ok"
      /\ CacheEntryOf(calls[c].stats, getHash(calls[c].fileData))
           = calls[c].before.entry )
    => /\ calls[c].writes = 0
       /\ ~calls[c].mutated
       /\ calls[c].pc \in {"getCacheFile", "settled"}
       /\ ResolvedCall(c) =>
            /\ calls[c].result.entry = calls[c].before.entry
            /\ StoredEntry(calls[c].filePath) = calls[c].before.entry

\* the second call found the document the first call created
C4_Witness ==
  \E c \in Calls :
    /\ ResolvedCall(c)
    /\ calls[c].op = "updateCache"
    /\ AfterCommitOfSamePath(c)
    /\ calls[c].before.writeState = "ok"
    /\ calls[c].result.entry = calls[c].before.entry
    /\ calls[c].loadState = "parsed"

\* C5: a successful commit resolves with {dateUpdated: t, hash:
\* getHash(content)}, and a getCacheEntry(p) right after it resolves with
\* that entry.
C5_RoundTrip ==
  \A c \in Calls :
    /\ (ResolvedCall(c) /\ calls[c].op = "updateCache") =>
         calls[c].result.entry
           = CacheEntryOf(calls[c].stats, getHash(calls[c].fileData))
    /\ (ResolvedCall(c) /\ calls[c].op = "getCacheEntry" /\ AfterCommitOfSamePath(c)) =>
         calls[c].result.entry = calls[c].before.entry

\* the commit wrote a bucket that was not in the overlay, the read parsed it
C5_Witness ==
  \E c \in Calls :
    /\ ResolvedCall(c)
    /\ calls[c].op = "getCacheEntry"
    /\ AfterCommitOfSamePath(c)
    /\ calls[c].before.writeState = "ok"
    /\ calls[c].loadState = "parsed"

\* C6: a successful updateCache(p) resolves with {dateUpdated: the time its
\* stat observed, hash: getHash(the content it read)}, the persisted
\* document then holds that entry for p, and the call wrote at most once.
C6_CommittedEntryIsPersisted ==
  \A c \in Calls :
    (ResolvedCall(c) /\ calls[c].op = "updateCache") =>
      LET hashPath == getHashPath(calls[c].filePath)
      IN  /\ calls[c].result.entry
               = CacheEntryOf(calls[c].stats, getHash(calls[c].fileData))
          /\ calls[c].writes <= 1
          /\ disk[hashPath].exists
          /\ JSONparses(disk[hashPath].text)
          /\ PropOrEmpty(JSONparse(disk[hashPath].text), calls[c].filePath)
               = <<calls[c].result.entry>>

\* C7: a load that finds no document resolves with the empty mapping: the
\* call is not rejected by it, the overlay gets no bucket for the key, the
\* step writes nothing, and a read-entry resolves with the zero entry.
C7_State ==
  \A c \in Calls :
    calls[c].loadState = "ENOENT" =>
      /\ calls[c].cacheFile = <<>>
      /\ ~calls[c].held
      /\ ~localCache[getHashPath(calls[c].arg)].has
      /\ calls[c].result.err # "Error"
      /\ calls[c].op \in {"getCached", "getCacheEntry"} =>
           /\ ResolvedCall(c)
           /\ calls[c].cacheEntry = CacheEntryOf(0, 0)
           /\ calls[c].writes = 0

C7_Step ==
  \A c \in Calls :
    (calls'[c].loadState = "ENOENT" /\ calls[c].loadState # "ENOENT") => StoreUnchanged

C7_MissingBucketIsEmpty == []C7_State /\ [][C7_Step]_vars

C7_Witness ==
  \E c \in Calls :
    ResolvedCall(c) /\ calls[c].op = "getCacheEntry" /\ calls[c].loadState = "ENOENT"

\* C8: a load that fails otherwise (a read error that is not ENOENT, a
\* document that does not parse) rejects the call; the overlay gets no
\* bucket for the key, nothing is assigned and nothing is written.
C8_State ==
  \A c \in Calls :
    calls[c].loadState \in {"EACCES", "SyntaxError"} =>
      /\ RejectedCall(c)
      /\ ~localCache[calls[c].target].has
      /\ calls[c].writes = 0
      /\ ~calls[c].mutated

C8_Step ==
  \A c \in Calls :
    ( /\ calls'[c].loadState \in {"EACCES", "SyntaxError"}
      /\ calls[c].loadState \notin {"EACCES", "SyntaxError"} ) => StoreUnchanged

C8_LoadFailureRejects == []C8_State /\ [][C8_Step]_vars

C8_Witness ==
  \E c \in Calls : calls[c].op = "updateCache" /\ calls[c].loadState = "SyntaxError"

\* C9: when the stat or the read of the tracked file fails, the call
\* rejects with no result, whichever of the two fails and in whichever
\* order they settle; it never loads the bucket, assigns nothing, writes
\* nothing, and its steps leave the overlay and the documents as they were.
C9_State ==
  \A c \in Calls :
    (calls[c].statState = "err" \/ calls[c].readState = "err") =>
      /\ RejectedCall(c)
      /\ calls[c].result.entry = CacheEntryOf(0, 0)
      /\ calls[c].result.fileInfo = NoFileInfo
      /\ calls[c].loads = 0
      /\ calls[c].loadState = "none"
      /\ calls[c].writes = 0
      /\ ~calls[c].mutated

C9_Step ==
  \A c \in Calls :
    (StepOf(c) /\ (calls'[c].statState = "err" \/ calls'[c].readState = "err")) =>
      StoreUnchanged

C9_TrackedFileFailureRejects == []C9_State /\ [][C9_Step]_vars

\* the read failed after the stat had succeeded
C9_Witness ==
  \E c \in Calls :
    RejectedCall(c) /\ calls[c].statState = "ok" /\ calls[c].readState = "err"

\* C10: when the write of the document fails, updateCache rejects with the
\* write's failure after one write; the document is as it was before the
\* commit, and a bucket held in the overlay has the new entry.
C10_FailedWriteIsNotRolledBack ==
  \A c \in Calls :
    calls[c].writeState = "failed" =>
      /\ RejectedCall(c)
      /\ calls[c].op = "updateCache"
      /\ calls[c].result.err \in {"EACCES", "ENOENT"}
      /\ calls[c].writes = 1
      /\ disk[calls[c].target] = calls[c].prior
      /\ calls[c].held =>
           /\ localCache[calls[c].target].has
           /\ PropOrEmpty(localCache[calls[c].target].cacheFile, calls[c].filePath)
                = <<calls[c].cacheEntry>>

C10_Witness ==
  \E c \in Calls : calls[c].writeState = "failed" /\ calls[c].held

\* the persisted document hashPath has an entry for filePath
Persisted(hashPath, filePath) ==
  /\ disk[hashPath].exists
  /\ JSONparses(disk[hashPath].text)
  /\ HasKey(JSONparse(disk[hashPath].text), filePath)

\* C11: once the persisted document of a bucket has an entry for a path,
\* every later state of the document has an entry for that path, under any
\* interleaving of getCached and updateCache calls.
C11_Frame ==
  \A h \in DocPaths, p \in FilePaths : Persisted(h, p) => Persisted(h, p)'

C11_PersistedEntryStays == [][C11_Frame]_vars

\* two calls that committed different paths of one bucket, each having
\* found no document when it loaded the bucket
RacedCommits(c, d) ==
  /\ c # d
  /\ ResolvedCall(c) /\ ResolvedCall(d)
  /\ calls[c].op = "updateCache" /\ calls[d].op = "updateCache"
  /\ calls[c].filePath # calls[d].filePath
  /\ calls[c].target = calls[d].target
  /\ calls[c].loadState = "ENOENT" /\ calls[d].loadState = "ENOENT"
  /\ calls[c].writeState = "ok" /\ calls[d].writeState = "ok"

\* C12: when two overlapping updateCache calls for different paths of one
\* bucket each loaded the bucket before the other's write landed and both
\* resolved, the document holds the entry of the call whose write landed
\* last, and no entry for the other call's path.
C12_LastWriteWins ==
  \A c, d \in Calls :
    (RacedCommits(c, d) /\ last = Summary(calls[d])) =>
      /\ disk[calls[d].target] = Written(calls[d])
      /\ PropOrEmpty(JSONparse(disk[calls[d].target].text), calls[d].filePath)
           = <<calls[d].result.entry>>
      /\ ~Persisted(calls[d].target, calls[c].filePath)

C12_Witness ==
  \E c, d \in Calls :
    /\ RacedCommits(c, d)
    /\ last = Summary(calls[d])
    /\ ~Persisted(calls[d].target, calls[c].filePath)

\* (31 * h + chr) wrapped to 32 bits, by the 16-bit halves of h
Fold31Step(h, chr) ==
  LET low  == 31 * (h % 65536) + chr
      high == (31 * (h \div 65536) + (low \div 65536)) % 65536
  IN  (IF high >= 32768 THEN high - 65536 ELSE high) * 65536 + (low % 65536)

RECURSIVE Fold31(_, _)
Fold31(h, text) ==
  IF text = <<>> THEN h ELSE Fold31(Fold31Step(h, Head(text)), Tail(text))

\* C13: getHash("") = 0, and for every text getHash is the left fold of
\* h := (31 * h + charCode) wrapped to 32 bits from h = 0, a value of the
\* signed 32-bit range (its upper half is in -2^15 .. 2^15 - 1).
C13_HashIsFold31 ==
  /\ getHash(<<>>) = 0
  /\ hashed.applied =>
       /\ hashed.hash = Fold31(0, hashed.text)
       /\ hashed.hash = getHash(hashed.text)
       /\ (hashed.hash \div 65536) \in -32768..32767

\* a text whose running value wrapped around: its hash is negative
C13_Witness ==
  hashed.applied /\ Len(hashed.text) = MaxLen /\ hashed.hash < 0

\* a call that has been started and has not resolved or rejected
Running(c) == calls[c].pc \notin {"idle", "settled"}

\* C14: when every file-system operation that was issued completes in the
\* end, with success or with failure, every getCached and updateCache call
\* resolves or rejects in the end, whatever other calls do meanwhile.
C14_EveryCallSettles == \A c \in Calls : Running(c) ~> Settled(c)

\* two calls were in progress together and both have settled, one of them
\* with a failure
C14_Witness ==
  /\ \A c \in Calls : Settled(c)
  /\ \E c \in Calls : RejectedCall(c)
  /\ \E c \in Calls : ResolvedCall(c) /\ calls[c].writeState = "ok"

\* an array with arrays in arrays, and its tasks in depth-first order
NestedArr ==
  <<ArrayItem(<<TaskItem("t1"), ArrayItem(<<TaskItem("t2")>>)>>), TaskItem("t3")>>

\* C15: chainTasks invokes the tasks of the flattened list in order, the
\* next one only when the promise of the one before has resolved; nested
\* arrays are flattened depth-first in order; when all have resolved the
\* returned promise resolves with one outcome per task, in task order (with
\* the empty array for an empty list).
C15_TasksRunInOrder ==
  LET flat == flatten(chain.arr)
  IN  /\ flatten(NestedArr) = <<"t1", "t2", "t3">>
      /\ flatten(<<>>) = <<>>
      /\ chain.state # "idle" =>
           /\ Len(chain.invoked) <= Len(flat)
           /\ chain.invoked = SubSeq(flat, 1, Len(chain.invoked))
           /\ Len(chain.invoked) <= Len(chain.fulfilled) + 1
           /\ chain.pending <=> (chain.state = "running")
           /\ chain.pending => Len(chain.invoked) = Len(chain.fulfilled) + 1
      /\ chain.state = "resolved" =>
           /\ chain.value = chain.fulfilled
           /\ Len(chain.value) = Len(flat)
           /\ \A i \in 1..Len(flat) : chain.value[i][1] = flat[i]
      /\ (chain.state # "idle" /\ flat = <<>>) =>
           (chain.state = "resolved" /\ chain.value = <<>>)

\* the nested array ran to the end
C15_Witness ==
  chain.state = "resolved" /\ chain.arr = NestedArr /\ Len(chain.value) = Len(flatten(NestedArr))

\* C16: when the promise of a task rejects, the promise chainTasks returned
\* rejects with that reason, and no task after that one is invoked.
C16_State ==
  chain.failure # "none" =>
    /\ chain.state = "rejected"
    /\ chain.reason = chain.failure
    /\ ~chain.pending
    /\ Len(chain.invoked) = Len(chain.fulfilled) + 1

C16_Step == chain.failure # "none" => chain' = chain

C16_RejectionStopsTheChain == []C16_State /\ [][C16_Step]_vars

\* the second task rejected and a third was left
C16_Witness ==
  chain.state = "rejected" /\ Len(chain.invoked) = Len(chain.fulfilled) + 1
    /\ chain.fulfilled # <<>> /\ chain.queue # <<>>

\* C17: a bucket key present in localCache stays present and stays bound
\* to the same object, and a load of a bucket that is present is served by
\* that object without a read of the document.
C17_Frame ==
  /\ \A h \in DocPaths :
       localCache[h].has =>
         /\ localCache'[h].has
         /\ localCache'[h].id = localCache[h].id
  /\ \A c \in Calls :
       (calls'[c].loads > calls[c].loads) => ~localCache[calls'[c].target].has

C17_OverlayKeepsObjects == [][C17_Frame]_vars

\* C18: after a commit that stored a new entry for a path, the first write
\* into a bucket without a document included, localCache has the path's
\* bucket and that bucket has the entry.
C18_CommittedBucketIsInOverlay ==
  \A c \in Calls :
    (ResolvedCall(c) /\ calls[c].op = "updateCache" /\ calls[c].writeState = "ok") =>
      /\ localCache[getHashPath(calls[c].filePath)].has
      /\ PropOrEmpty(localCache[getHashPath(calls[c].filePath)].cacheFile,
                     calls[c].filePath) = <<calls[c].result.entry>>

\* C19: with one commit at a time, a commit that changes the entry of path
\* p stringifies the bucket object with p's entry set and every other entry
\* as it was loaded, that text becomes the document of p's bucket, and the
\* call reads and writes the document of no other bucket.
C19_State ==
  \A c \in Calls :
    (calls[c].op = "updateCache" /\ calls[c].writeState = "ok") =>
      /\ calls[c].mutated
      /\ disk[calls[c].target].text = calls[c].text

\* the bucket document of each tracked file
BucketOf == [p \in FilePaths |-> getHashPath(p)]

\* the text a commit has stringified, when it assigns the entry
C19_Text(call) ==
  LET p      == call.filePath
      loaded == call.cacheFile
      doc    == JSONparse(call.text)
  IN  /\ call.target = BucketOf[p]
      /\ JSONparses(call.text)
      /\ PropOrEmpty(doc, p) = <<call.cacheEntry>>
      /\ \A q \in FilePaths \ {p} : PropOrEmpty(doc, q) = PropOrEmpty(loaded, q)
      /\ Len(doc) = Len(loaded) + (IF HasKey(loaded, p) THEN 0 ELSE 1)
      /\ call.loadState = "parsed" => loaded = JSONparse(call.prior.text)

C19_Step ==
  \A c \in Calls :
    (StepOf(c) /\ calls'[c].op = "updateCache") =>
      /\ calls'[c].target \in {<<>>, BucketOf[calls'[c].filePath]}
      /\ \A h \in DocPaths :
           h # BucketOf[calls'[c].filePath] =>
             (disk'[h] = disk[h] /\ localCache'[h] = localCache[h])
      /\ (calls'[c].mutated /\ ~calls[c].mutated) => C19_Text(calls'[c])
      /\ (calls'[c].mutated /\ calls[c].mutated) =>
           /\ calls'[c].text = calls[c].text
           /\ calls'[c].target = calls[c].target

C19_CommitTouchesOnlyItsKey == []C19_State /\ [][C19_Step]_vars

\* a commit wrote a document that holds another path's entry too
C19_Witness ==
  \E c \in Calls :
    /\ ResolvedCall(c) /\ calls[c].op = "updateCache" /\ calls[c].writeState = "ok"
    /\ \E q \in FilePaths \ {calls[c].filePath} : Persisted(calls[c].target, q)

\* the pipeline of updateCache is in mkdirp
InMkdirp(call) == call.pc \in {"exists", "stat", "mkdir"}

\* prefix number j of the directory mkdirp was called with
PrefixOf(call, j) == SubSeq(MkdirpTarget(call), 1, j)

\* C20: mkdirp takes the prefixes of its target one by one from the
\* shortest; it changes no directory that exists, creates a prefix that is
\* missing, rejects with EISDIR at a prefix that is not a directory without
\* creating anything deeper, and when it resolves (nothing else changing the
\* tree) every prefix of the target is a directory.
C20_State ==
  \A c \in Calls :
    /\ InMkdirp(calls[c]) =>
         /\ calls[c].index \in 1..Len(MkdirpTarget(calls[c]))
         /\ \A j \in 1..(calls[c].index - 1) : nodes[PrefixOf(calls[c], j)] = "dir"
    /\ calls[c].writes > 0 =>
         \A j \in 1..Len(MkdirpTarget(calls[c])) : nodes[PrefixOf(calls[c], j)] = "dir"
    /\ calls[c].result.err = "EISDIR" =>
         /\ nodes[PartialPath(calls[c])] = "file"
         /\ calls[c].writes = 0

C20_Step ==
  /\ \A d \in DirPaths :
       nodes'[d] # nodes[d] =>
         /\ nodes[d] = "none" /\ nodes'[d] = "dir"
         /\ \E c \in Calls : calls[c].pc = "mkdir" /\ d = PartialPath(calls[c])
  /\ \A c \in Calls :
       /\ (InMkdirp(calls[c]) /\ InMkdirp(calls'[c])) =>
            calls'[c].index \in {calls[c].index, calls[c].index + 1}
       /\ (~InMkdirp(calls[c]) /\ InMkdirp(calls'[c])) => calls'[c].index = 1
       /\ (calls'[c].result.err = "EISDIR" /\ calls[c].result.err # "EISDIR") =>
            nodes' = nodes

C20_MkdirpMakesEveryPrefix == []C20_State /\ [][C20_Step]_vars

\* mkdirp resolved for a directory of three prefixes
C20_Witness ==
  \E c \in Calls :
    calls[c].pc = "writeFile" /\ Len(MkdirpTarget(calls[c])) > Len(CacheRoot)

\* C21: cpGlob copies the matched files one at a time in glob order; a
\* failure for a missing destination folder makes the folder and tries the
\* same file once more; a second failure in a row of that file, or any other
\* error, rejects cpGlob and nothing more is copied; it resolves with the
\* full list of matched files, after every file was copied.
C21_State ==
  /\ copying.copied \o copying.toProcess = copying.files
  /\ copying.tries <= 2
  /\ copying.pc = "mkdirp" =>
       (copying.tries = 1 /\ copying.lastErr = "dest" /\ copying.noRetry)
  /\ (copying.pc = "cp" /\ copying.tries = 2) => (copying.noRetry /\ copying.made > 0)
  /\ copying.state = "resolved" =>
       (copying.value = copying.files /\ copying.copied = copying.files)
  /\ (copying.state = "rejected" /\ copying.lastErr = "dest") => copying.tries = 2
  /\ copying.lastErr \in {"source", "EACCES", "mkdirp"} => copying.state = "rejected"

C21_Step ==
  /\ copying.state \in {"resolved", "rejected"} => copying' = copying
  /\ Len(copying'.copied) \in {Len(copying.copied), Len(copying.copied) + 1}

C21_CopiesInOrderWithOneRetry == []C21_State /\ [][C21_Step]_vars

\* three files were copied, one of them at the second try
C21_Witness ==
  copying.state = "resolved" /\ Len(copying.files) > Len(<<"f1", "f2">>) /\ copying.made > 0

\* the bucket localCache holds for hashPath has the entries of the
\* persisted document, and no other
AgreesWithDisk(hashPath) ==
  /\ disk[hashPath].exists
  /\ JSONparses(disk[hashPath].text)
  /\ \A p \in FilePaths \cup DocPaths :
       PropOrEmpty(localCache[hashPath].cacheFile, p)
         = PropOrEmpty(JSONparse(disk[hashPath].text), p)
  /\ Len(localCache[hashPath].cacheFile) = Len(JSONparse(disk[hashPath].text))

\* C22: when getCached and updateCache calls run one at a time and none
\* fails, then after each completed call every bucket held in localCache is
\* entry for entry equal to its persisted document.
C22_OverlayAgreesWithDisk ==
  Quiet => \A h \in DocPaths : localCache[h].has => AgreesWithDisk(h)

\* a commit has changed a bucket that localCache holds, and its document
C22_Witness ==
  /\ Quiet
  /\ \E c \in Calls :
       /\ ResolvedCall(c) /\ calls[c].op = "updateCache"
       /\ calls[c].writeState = "ok" /\ calls[c].held
       /\ localCache[calls[c].target].has


\* the call before call c was an updateCache of the same path that was
\* rejected because its document write failed
RetryOfFailedWrite(c) ==
  /\ calls[c].before.op = "updateCache"
  /\ calls[c].before.kind = "rejected"
  /\ calls[c].before.writeState = "failed"
  /\ calls[c].before.filePath = calls[c].filePath

\* call c observed the file as the failed call before it did: the failed
\* call assigned its entry in the overlay's bucket before writing, and c,
\* which assigned nothing, computed the entry that bucket holds
SameObservation(c) ==
  LET hashPath == BucketOf[calls[c].filePath]
  IN  /\ ~calls[c].mutated
      /\ localCache[hashPath].has
      /\ EntryOrZero(localCache[hashPath].cacheFile, calls[c].filePath)
           = CacheEntryOf(calls[c].stats, getHash(calls[c].fileData))

\* C23: when updateCache(p) was rejected because its document write failed
\* and the next updateCache(p), observing the same unchanged file, resolves,
\* the persisted document of p's bucket holds p's committed entry.
C23_RetryPersists ==
  \A c \in Calls :
    (/\ ResolvedCall(c)
     /\ calls[c].op = "updateCache"
     /\ RetryOfFailedWrite(c)
     /\ SameObservation(c)) =>
      LET hashPath == BucketOf[calls[c].filePath]
      IN  /\ Persisted(hashPath, calls[c].filePath)
          /\ GetProp(JSONparse(disk[hashPath].text), calls[c].filePath)
               = calls[c].result.entry


\* calls c and d are updateCache calls in progress together (a call takes
\* the second slot only while the first is busy) for different buckets
ConcurrentCommits(c, d) ==
  /\ c # d
  /\ calls[c].op = "updateCache"
  /\ calls[d].op = "updateCache"
  /\ BucketOf[calls[c].filePath] # BucketOf[calls[d].filePath]

\* the persisted document of the call's bucket holds the entry it resolved with
CommitPersisted(c) ==
  LET hashPath == BucketOf[calls[c].filePath]
  IN  /\ Persisted(hashPath, calls[c].filePath)
      /\ GetProp(JSONparse(disk[hashPath].text), calls[c].filePath)
           = calls[c].result.entry

\* C24: two concurrent updateCache calls for paths of different buckets both
\* resolve, and each bucket's persisted document then holds its path's
\* committed entry, under every interleaving, the parent directory of the
\* two documents missing at the start included.
C24_DifferentBucketsCommit ==
  \A c, d \in Calls :
    (ConcurrentCommits(c, d) /\ Settled(c) /\ Settled(d)) =>
      /\ ResolvedCall(c) /\ CommitPersisted(c)
      /\ ResolvedCall(d) /\ CommitPersisted(d)


\* the flattened list given to chainTasks has an element that is not a function
GivenNonFunction ==
  /\ chain.state # "idle"
  /\ FirstNonFunction(flatten(chain.arr)) # 0

\* C25: when the flattened list given to chainTasks has an element that is
\* not a function, the returned promise is rejected and no task of the list
\* is invoked, before the rejection is returned or after it.
C25_NonFunctionInvokesNothing ==
  GivenNonFunction =>
    /\ chain.state = "rejected"
    /\ chain.reason = NonFunctionReason
    /\ chain.invoked = <<>>

==============================================================================
